---- MODULE Spec2Model ----
(***************************************************************************)
(* Model of bench/src/memmem/mod.rs: the benchmark matrix of the memmem    *)
(* family.  all() runs four matrix passes over the input catalog, then the *)
(* sliceslice benchmarks, then misc().  Every pass registers, through      *)
(* define(), one named closure per admitted combination.                   *)
(*                                                                         *)
(* Strings the program formats or compares are sequences of one-character  *)
(* strings, so that format!() is concatenation and a name can be split     *)
(* again at its '/' and '-' characters.                                    *)
(***************************************************************************)
EXTENDS Integers, Sequences, FiniteSets, TLC

(* ---------------- bounds of the model ---------------- *)
MaxInputs == 2
MaxQueries == 2
MaxCount == 3
MaxIters == 2

(* ---------------- string literals of the source ---------------- *)
Slash == "/"
Dash == "-"
memmemS == <<"m","e","m","m","e","m">>
memrmemS == <<"m","e","m","r","m","e","m">>
oneshotS == <<"o","n","e","s","h","o","t">>
prebuiltS == <<"p","r","e","b","u","i","l","t">>
oneshotiterS == <<"o","n","e","s","h","o","t","i","t","e","r">>
prebuiltiterS == <<"p","r","e","b","u","i","l","t","i","t","e","r">>
reverseS == <<"r","e","v","e","r","s","e">>
neverS == <<"n","e","v","e","r">>
rareS == <<"r","a","r","e">>
commonS == <<"c","o","m","m","o","n">>

(* stringify!($impl) of the eight identifiers def_all_impls passes *)
krate == <<"k","r","a","t","e">>
krate_nopre == <<"k","r","a","t","e","_","n","o","p","r","e">>
bstr == <<"b","s","t","r">>
regex == <<"r","e","g","e","x">>
stud == <<"s","t","u","d">>
twoway == <<"t","w","o","w","a","y">>
sliceslice == <<"s","l","i","c","e","s","l","i","c","e">>
libc == <<"l","i","b","c">>

(* the order def_all_impls expands def_impl in *)
ImplOrder == <<krate, krate_nopre, bstr, regex, stud, twoway, sliceslice, libc>>
Impls == {ImplOrder[i] : i \in 1..Len(ImplOrder)}

(* the tags available() answers with *)
Tags == {oneshotS, prebuiltS, oneshotiterS, prebuiltiterS, reverseS}
Configs == {oneshotS, prebuiltS, oneshotiterS, prebuiltiterS}
Tiers == <<neverS, rareS, commonS>>

(* ---------------- the input catalog (memmem::inputs::INPUTS) ---------------- *)
(* Names are slash-free; some carry a '-', as the names of the catalog do. *)
InputNames == { <<"x">>, <<"x","-","y">> }
QueryNames == { <<"a">>, <<"a","-","b">> }
Needles == {"a", "z"}
Corpora == {"aaab"}
(* the queries over a set of names, of needles and of counts *)
Queries(names, needles, counts) == [name : names, needle : needles, count : counts]

RECURSIVE QueryLists(_, _)
(* the query lists of exactly n queries, names distinct within a list *)
QueryLists(Q, n) ==
    IF n = 0 THEN { <<>> }
    ELSE UNION { { Append(l, q) :
                     q \in { r \in Q : \A k \in 1..Len(l) : l[k].name # r.name } } :
                 l \in QueryLists(Q, n - 1) }

(* the inputs that hold exactly t queries over their three tiers *)
InputsWith(N, Q, t) ==
    UNION { [name : N, corpus : Corpora,
             never : QueryLists(Q, ab[1]), rare : QueryLists(Q, ab[2]),
             common : QueryLists(Q, t - ab[1] - ab[2])] :
            ab \in { p \in (0..t) \X (0..t) : p[1] + p[2] <= t } }

RECURSIVE CatalogsOf(_, _, _, _)
(* the catalogs of exactly k inputs and t queries, input names distinct *)
CatalogsOf(N, Q, k, t) ==
    IF k = 0 THEN (IF t = 0 THEN { <<>> } ELSE {})
    ELSE UNION { UNION { { Append(c, i) :
                             i \in { j \in InputsWith(N, Q, s) :
                                       \A m \in 1..Len(c) : c[m].name # j.name } } :
                         c \in CatalogsOf(N, Q, k - 1, t - s) } :
                 s \in 0..t }

(* one input "x" with one query "a", of either needle and any count, in any
   tier *)
ProbeCatalogs ==
    CatalogsOf({ <<"x">> }, Queries({ <<"a">> }, Needles, 0..MaxCount), 1, 1)

(* the counts on either side of the admission rules *)
WideCounts == {1, 2}

(* up to MaxInputs inputs and MaxQueries queries, of any names *)
WideCatalogs ==
    UNION { CatalogsOf(InputNames, Queries(QueryNames, {"a"}, WideCounts), k, t) :
            k \in 1..MaxInputs, t \in 0..MaxQueries }

QueriesOf(inp, tier) ==
    IF tier = neverS THEN inp.never
    ELSE IF tier = rareS THEN inp.rare ELSE inp.common

(* ---------------- state ---------------- *)
VARIABLES
    INPUTS,      \* the catalog the passes walk
    available,   \* imp::$impl::available: [impl -> [needle -> set of tags]]
    registered,  \* what define() has been handed, in order
    pc,          \* the call of all() that runs next
    reads,       \* how often std::fs::read was called
    run          \* the closure the harness is running, if any

vars == <<INPUTS, available, registered, pc, reads, run>>

(* run: phase is idle, timed (inside b.iter) or failed (an assert_eq! panicked);
   bench is the entry invoked, n the iterations b.iter makes, iters those begun,
   done those that returned; setupBuilds and timedBuilds count the searchers
   built before and inside the timed region; asserts counts the assert_eq!
   evaluated and observed is the last search result. *)
Idle == [phase |-> "idle", bench |-> 0, n |-> 0, iters |-> 0, done |-> 0,
         setupBuilds |-> 0, timedBuilds |-> 0, asserts |-> 0, observed |-> "none"]

(* ---------------- the name builder ---------------- *)
(* the name without its tier *)
FormatName_NoTier(dir, imp, config, inp, freq, q) ==
    dir \o <<Slash>> \o imp \o <<Slash>> \o config \o <<Slash>> \o inp
        \o <<Slash>> \o q

(* the name with tier and query run together *)
FormatName_NoDash(dir, imp, config, inp, freq, q) ==
    dir \o <<Slash>> \o imp \o <<Slash>> \o config \o <<Slash>> \o inp
        \o <<Slash>> \o freq \o q

(* the name with imp and config in each other's place *)
FormatName_Swapped(dir, imp, config, inp, freq, q) ==
    dir \o <<Slash>> \o config \o <<Slash>> \o imp \o <<Slash>> \o inp
        \o <<Slash>> \o freq \o <<Dash>> \o q

(* format!("{dir}/{imp}/{config}/{inp}/{freq}-{q}", ...) *)
FormatName(dir, imp, config, inp, freq, q) ==
    dir \o <<Slash>> \o imp \o <<Slash>> \o config \o <<Slash>> \o inp
        \o <<Slash>> \o freq \o <<Dash>> \o q

RECURSIVE Flatten(_)
Flatten(ss) == IF ss = <<>> THEN <<>> ELSE Head(ss) \o Flatten(Tail(ss))

(* one call of define(c, &name, corpus, closure) of a matrix pass: the entry
   the harness receives.  pass, dir .. q record the macro expansion that made
   the call; the closure holds what the Rust closure captures. *)
Bench(pass, dir, impl, config, i, freq, k, closure) ==
    [name |-> FormatName(dir, impl, config, INPUTS[i].name, freq,
                         QueriesOf(INPUTS[i], freq)[k].name),
     corpus |-> INPUTS[i].corpus,
     closure |-> closure,
     pass |-> pass, dir |-> dir, impl |-> impl, config |-> config,
     inp |-> i, tier |-> freq, q |-> k]

(* ---------------- oneshot ---------------- *)
(* expects a match only of a query that matches more than once *)
oneshot_define_ExpectsMany(dir, impl, i, freq, k) ==
    LET q == QueriesOf(INPUTS[i], freq)[k]
        expected == q.count > 1
    IN Bench("oneshot", dir, impl, oneshotS, i, freq, k,
             [kind |-> "oneshot", expected |-> expected, needle |-> q.needle])

oneshot_define(dir, impl, i, freq, k) ==
    LET q == QueriesOf(INPUTS[i], freq)[k]
        expected == q.count > 0
    IN Bench("oneshot", dir, impl, oneshotS, i, freq, k,
             [kind |-> "oneshot", expected |-> expected, needle |-> q.needle])

(* admits a query of two matches as well *)
oneshot_def_impl_AdmitsTwo(i, freq, k, impl) ==
    LET q == QueriesOf(INPUTS[i], freq)[k]
        config == oneshotS
        avail == available[impl][q.needle]
    IN IF q.count <= 2 /\ config \in avail
       THEN <<oneshot_define(memmemS, impl, i, freq, k)>> \o
            (IF reverseS \in avail
             THEN <<oneshot_define(memrmemS, impl, i, freq, k)>> ELSE <<>>)
       ELSE <<>>

oneshot_def_impl(i, freq, k, impl) ==
    LET q == QueriesOf(INPUTS[i], freq)[k]
        config == oneshotS
        avail == available[impl][q.needle]
    IN IF q.count <= 1 /\ config \in avail
       THEN <<oneshot_define(memmemS, impl, i, freq, k)>> \o
            (IF reverseS \in avail
             THEN <<oneshot_define(memrmemS, impl, i, freq, k)>> ELSE <<>>)
       ELSE <<>>

(* ---------------- prebuilt ---------------- *)
prebuilt_define(dir, impl, i, freq, k) ==
    LET q == QueriesOf(INPUTS[i], freq)[k]
        expected == q.count > 0
    IN Bench("prebuilt", dir, impl, prebuiltS, i, freq, k,
             [kind |-> "prebuilt", expected |-> expected, needle |-> q.needle])

(* defines the reverse benchmark without asking for "reverse" *)
prebuilt_def_impl_AlwaysReverse(i, freq, k, impl) ==
    LET q == QueriesOf(INPUTS[i], freq)[k]
        config == prebuiltS
        avail == available[impl][q.needle]
    IN IF q.count <= 1 /\ config \in avail
       THEN << prebuilt_define(memmemS, impl, i, freq, k),
               prebuilt_define(memrmemS, impl, i, freq, k) >>
       ELSE <<>>

prebuilt_def_impl(i, freq, k, impl) ==
    LET q == QueriesOf(INPUTS[i], freq)[k]
        config == prebuiltS
        avail == available[impl][q.needle]
    IN IF q.count <= 1 /\ config \in avail
       THEN <<prebuilt_define(memmemS, impl, i, freq, k)>> \o
            (IF reverseS \in avail
             THEN <<prebuilt_define(memrmemS, impl, i, freq, k)>> ELSE <<>>)
       ELSE <<>>

(* ---------------- oneshot_iter ---------------- *)
oneshot_iter_define(dir, impl, i, freq, k) ==
    LET q == QueriesOf(INPUTS[i], freq)[k]
    IN Bench("oneshot_iter", dir, impl, oneshotiterS, i, freq, k,
             [kind |-> "oneshotiter", expected |-> q.count, needle |-> q.needle])

(* does not ask available() for the mode *)
oneshot_iter_def_impl_IgnoresAvailable(i, freq, k, impl) ==
    LET q == QueriesOf(INPUTS[i], freq)[k]
        avail == available[impl][q.needle]
    IN IF q.count > 1
       THEN <<oneshot_iter_define(memmemS, impl, i, freq, k)>> \o
            (IF reverseS \in avail
             THEN <<oneshot_iter_define(memrmemS, impl, i, freq, k)>> ELSE <<>>)
       ELSE <<>>

oneshot_iter_def_impl(i, freq, k, impl) ==
    LET q == QueriesOf(INPUTS[i], freq)[k]
        config == oneshotiterS
        avail == available[impl][q.needle]
    IN IF q.count > 1 /\ config \in avail
       THEN <<oneshot_iter_define(memmemS, impl, i, freq, k)>> \o
            (IF reverseS \in avail
             THEN <<oneshot_iter_define(memrmemS, impl, i, freq, k)>> ELSE <<>>)
       ELSE <<>>

(* ---------------- prebuilt_iter ---------------- *)
prebuilt_iter_define(dir, impl, i, freq, k) ==
    LET q == QueriesOf(INPUTS[i], freq)[k]
    IN Bench("prebuilt_iter", dir, impl, prebuiltiterS, i, freq, k,
             [kind |-> "prebuiltiter", expected |-> q.count, needle |-> q.needle])

(* asks for "reverse" beside the mode rather than under it *)
prebuilt_iter_def_impl_ReverseAlone(i, freq, k, impl) ==
    LET q == QueriesOf(INPUTS[i], freq)[k]
        config == prebuiltiterS
        avail == available[impl][q.needle]
    IN (IF q.count > 1 /\ config \in avail
        THEN <<prebuilt_iter_define(memmemS, impl, i, freq, k)>> ELSE <<>>) \o
       (IF q.count > 1 /\ reverseS \in avail
        THEN <<prebuilt_iter_define(memrmemS, impl, i, freq, k)>> ELSE <<>>)

prebuilt_iter_def_impl(i, freq, k, impl) ==
    LET q == QueriesOf(INPUTS[i], freq)[k]
        config == prebuiltiterS
        avail == available[impl][q.needle]
    IN IF q.count > 1 /\ config \in avail
       THEN <<prebuilt_iter_define(memmemS, impl, i, freq, k)>> \o
            (IF reverseS \in avail
             THEN <<prebuilt_iter_define(memrmemS, impl, i, freq, k)>> ELSE <<>>)
       ELSE <<>>

(* ---------------- the loops every pass shares ---------------- *)
(* def_impl! of the pass that is running *)
def_impl(pass, i, freq, k, impl) ==
    CASE pass = "oneshot" -> oneshot_def_impl(i, freq, k, impl)
      [] pass = "prebuilt" -> prebuilt_def_impl(i, freq, k, impl)
      [] pass = "oneshot_iter" -> oneshot_iter_def_impl(i, freq, k, impl)
      [] pass = "prebuilt_iter" -> prebuilt_iter_def_impl(i, freq, k, impl)

(* def_all_impls!: def_impl! for the eight implementations, in order *)
def_all_impls(pass, i, freq, k) ==
    Flatten([m \in 1..Len(ImplOrder) |-> def_impl(pass, i, freq, k, ImplOrder[m])])

(* for q in inp.<tier> { def_all_impls!(inp, q, "<tier>") } *)
ForTier(pass, i, freq) ==
    Flatten([k \in 1..Len(QueriesOf(INPUTS[i], freq)) |->
                def_all_impls(pass, i, freq, k)])

(* for inp in INPUTS { never; rare; common } *)
ForInputs(pass) ==
    Flatten([i \in 1..Len(INPUTS) |->
                ForTier(pass, i, neverS) \o ForTier(pass, i, rareS)
                    \o ForTier(pass, i, commonS)])

(* ---------------- misc ---------------- *)
miscS == <<"m","i","s","c">>
NEEDLES == << <<"a">>, <<"a","b","c","d">>, <<"a","b","c","d","e","f","g","h","1","2","3","4","5","6","7","8">> >>
constructDefaultS == <<"m","e","m","m","e","m","/","k","r","a","t","e","/","m","i","s","c","/","c","o","n","s","t","r","u","c","t","-","f","i","n","d","e","r","/","d","e","f","a","u","l","t","(","l","e","n","=">>
constructCustomS == <<"m","e","m","m","e","m","/","k","r","a","t","e","/","m","i","s","c","/","c","o","n","s","t","r","u","c","t","-","f","i","n","d","e","r","/","c","u","s","t","o","m","(","l","e","n","=">>
frequencyDefaultS == <<"m","e","m","m","e","m","/","k","r","a","t","e","/","m","i","s","c","/","f","r","e","q","u","e","n","c","y","-","t","a","b","l","e","/","d","e","f","a","u","l","t">>
frequencyCustomS == <<"m","e","m","m","e","m","/","k","r","a","t","e","/","m","i","s","c","/","f","r","e","q","u","e","n","c","y","-","t","a","b","l","e","/","c","u","s","t","o","m">>

DigitChars == <<"0","1","2","3","4","5","6","7","8","9">>

RECURSIVE Digits(_)
(* what "{}" prints for a usize *)
Digits(n) ==
    IF n < 10 THEN <<DigitChars[n + 1]>>
    ELSE Digits(n \div 10) \o <<DigitChars[(n % 10) + 1]>>

(* a call of define() outside the matrix passes *)
MiscBench(pass, name, corpus, closure) ==
    [name |-> name, corpus |-> corpus, closure |-> closure,
     pass |-> pass, dir |-> memmemS, impl |-> krate, config |-> miscS,
     inp |-> 0, tier |-> <<>>, q |-> 0]

finder_construction_defines ==
    Flatten([k \in 1..Len(NEEDLES) |->
        << MiscBench("finder_construction",
                     constructDefaultS \o Digits(Len(NEEDLES[k])) \o <<")">>,
                     NEEDLES[k],
                     [kind |-> "construct", expected |-> "none", needle |-> NEEDLES[k]]),
           MiscBench("finder_construction",
                     constructCustomS \o Digits(Len(NEEDLES[k])) \o <<")">>,
                     NEEDLES[k],
                     [kind |-> "construct", expected |-> "none", needle |-> NEEDLES[k]]) >>])

ExeOutcomes == {"noargs", "unreadable", "readable"}

(* the first define() placed before the read *)
byte_frequencies_outcome_DefineFirst(exe) ==
    LET first == MiscBench("byte_frequencies", frequencyDefaultS, "exe",
                           [kind |-> "frequency", expected |-> 1, needle |-> "NEEDLE"])
        second == MiscBench("byte_frequencies", frequencyCustomS, "exe",
                            [kind |-> "frequency", expected |-> 1, needle |-> "NEEDLE"])
    IN IF exe = "noargs"
       THEN [defines |-> <<>>, reads |-> 0, pc |-> "panicked"]
       ELSE IF exe = "unreadable"
       THEN [defines |-> <<first>>, reads |-> 1, pc |-> "panicked"]
       ELSE [defines |-> <<first, second>>, reads |-> 1, pc |-> "done"]

(* byte_frequencies(c) for one outcome of args().next() and fs::read(exe):
   what it registers, how many reads it made, and where all() stands after *)
byte_frequencies_outcome(exe) ==
    IF exe = "noargs"
    THEN [defines |-> <<>>, reads |-> 0, pc |-> "panicked"]
    ELSE IF exe = "unreadable"
    THEN [defines |-> <<>>, reads |-> 1, pc |-> "panicked"]
    ELSE [defines |->
            << MiscBench("byte_frequencies", frequencyDefaultS, "exe",
                         [kind |-> "frequency", expected |-> 1, needle |-> "NEEDLE"]),
               MiscBench("byte_frequencies", frequencyCustomS, "exe",
                         [kind |-> "frequency", expected |-> 1, needle |-> "NEEDLE"]) >>,
          reads |-> 1, pc |-> "done"]

(* ---------------- the capability functions of a run ---------------- *)
(* One (implementation, needle) pair answers caps, every other pair base. *)
Capability(s, n0, caps, base) ==
    [i \in Impls |-> [n \in Needles |-> IF i = s /\ n = n0 THEN caps ELSE base]]

(* The implementations of S answer every tag, the others none. *)
WideCapability(S) ==
    [i \in Impls |-> [n \in Needles |-> IF i \in S THEN Tags ELSE {}]]

(* ---------------- initial states ---------------- *)
ProbeImpls == {krate, libc}

(* Either a one-query catalog, where the first or the last implementation
   answers any set of tags for the needle of that query and the others answer
   all or none, or a wider catalog, where the first and the last
   implementation answer every tag and the others none. *)
Init ==
    /\ \/ \E cat \in ProbeCatalogs, s \in ProbeImpls, caps \in SUBSET Tags,
             base \in {{}, Tags} :
            LET inp == cat[1]
                q == (inp.never \o inp.rare \o inp.common)[1]
            IN /\ INPUTS = cat
               /\ available = Capability(s, q.needle, caps, base)
       \/ \E cat \in WideCatalogs :
            /\ INPUTS = cat
            /\ available = WideCapability(ProbeImpls)
    /\ registered = <<>>
    /\ pc = "oneshot"
    /\ reads = 0
    /\ run = Idle

(* ---------------- all(): one action per call ---------------- *)
oneshot ==
    /\ pc = "oneshot"
    /\ run.phase = "idle"
    /\ registered' = registered \o ForInputs("oneshot")
    /\ pc' = "prebuilt"
    /\ UNCHANGED <<INPUTS, available, reads, run>>

prebuilt ==
    /\ pc = "prebuilt"
    /\ run.phase = "idle"
    /\ registered' = registered \o ForInputs("prebuilt")
    /\ pc' = "oneshot_iter"
    /\ UNCHANGED <<INPUTS, available, reads, run>>

oneshot_iter ==
    /\ pc = "oneshot_iter"
    /\ run.phase = "idle"
    /\ registered' = registered \o ForInputs("oneshot_iter")
    /\ pc' = "prebuilt_iter"
    /\ UNCHANGED <<INPUTS, available, reads, run>>

prebuilt_iter ==
    /\ pc = "prebuilt_iter"
    /\ run.phase = "idle"
    /\ registered' = registered \o ForInputs("prebuilt_iter")
    /\ pc' = "sliceslice"
    /\ UNCHANGED <<INPUTS, available, reads, run>>

(* sliceslice::all(c): its benchmarks are not followed here *)
sliceslice_all ==
    /\ pc = "sliceslice"
    /\ run.phase = "idle"
    /\ pc' = "finder_construction"
    /\ UNCHANGED <<INPUTS, available, registered, reads, run>>

finder_construction ==
    /\ pc = "finder_construction"
    /\ run.phase = "idle"
    /\ registered' = registered \o finder_construction_defines
    /\ pc' = "byte_frequencies"
    /\ UNCHANGED <<INPUTS, available, reads, run>>

byte_frequencies ==
    /\ pc = "byte_frequencies"
    /\ run.phase = "idle"
    /\ \E exe \in ExeOutcomes :
         LET o == byte_frequencies_outcome(exe)
         IN /\ registered' = registered \o o.defines
            /\ reads' = reads + o.reads
            /\ pc' = o.pc
    /\ UNCHANGED <<INPUTS, available, run>>

Next ==
    \/ oneshot
    \/ prebuilt
    \/ oneshot_iter
    \/ prebuilt_iter
    \/ sliceslice_all
    \/ finder_construction
    \/ byte_frequencies

Spec == Init /\ [][Next]_vars

(* ---------------- the registered closures, run by the harness ---------------- *)
SingleShot == {"oneshot", "prebuilt"}

(* the searchers a closure builds before it calls b.iter *)
ClosureSetupBuilds(cl) ==
    IF cl.kind \in {"prebuilt", "prebuiltiter", "frequency"} THEN 1 ELSE 0

(* the prebuilt closure building its searcher inside b.iter as well *)
IterationBuilds_InLoop(cl) ==
    IF cl.kind \in {"oneshot", "oneshotiter", "construct", "prebuilt"} THEN 1 ELSE 0

(* the searchers one timed iteration builds: the oneshot entry points and
   FinderBuilder take the needle inside b.iter *)
IterationBuilds(cl) ==
    IF cl.kind \in {"oneshot", "oneshotiter", "construct"} THEN 1 ELSE 0

(* the assert_eq! one timed iteration evaluates *)
IterationAsserts(cl) == IF cl.kind = "construct" THEN 0 ELSE 1

(* what the search under test may answer: it is a black box *)
Results(cl) ==
    IF cl.kind \in SingleShot THEN BOOLEAN
    ELSE IF cl.kind = "construct" THEN {"none"}
    ELSE 0..MaxCount

(* assert_eq!(expected, result) *)
AssertEq(cl, result) == cl.expected = result

(* the harness calls the closure of entry b, whose b.iter makes n iterations *)
invoke_closure ==
    /\ run.phase = "idle"
    /\ pc # "panicked"
    /\ \E b \in 1..Len(registered), n \in 1..MaxIters :
         run' = [Idle EXCEPT !.phase = "timed", !.bench = b, !.n = n,
                             !.setupBuilds = ClosureSetupBuilds(registered[b].closure)]
    /\ UNCHANGED <<INPUTS, available, registered, pc, reads>>

(* one iteration of the closure handed to b.iter *)
timed_iteration ==
    /\ run.phase = "timed"
    /\ run.done < run.n
    /\ LET cl == registered[run.bench].closure
       IN \E result \in Results(cl) :
            run' = [run EXCEPT
                      !.iters = @ + 1,
                      !.timedBuilds = @ + IterationBuilds(cl),
                      !.asserts = @ + IterationAsserts(cl),
                      !.observed = result,
                      !.done = IF AssertEq(cl, result) THEN @ + 1 ELSE @,
                      !.phase = IF AssertEq(cl, result) THEN "timed" ELSE "failed"]
    /\ UNCHANGED <<INPUTS, available, registered, pc, reads>>

(* b.iter has made its n iterations and the closure returns *)
closure_return ==
    /\ run.phase = "timed"
    /\ run.done = run.n
    /\ run' = Idle
    /\ UNCHANGED <<INPUTS, available, registered, pc, reads>>

(* one query, krate alone supporting every mode, with and without reverse *)
InitRun ==
    /\ \E cat \in ProbeCatalogs, caps \in {Tags, Tags \ {reverseS}} :
         LET inp == cat[1]
             q == (inp.never \o inp.rare \o inp.common)[1]
         IN /\ INPUTS = cat
            /\ available = Capability(krate, q.needle, caps, {})
    /\ registered = <<>>
    /\ pc = "oneshot"
    /\ reads = 0
    /\ run = Idle

NextRun ==
    \/ Next
    \/ invoke_closure
    \/ timed_iteration
    \/ closure_return

SpecRun == InitRun /\ [][NextRun]_vars

(* ======================= properties ======================= *)
PassPcs == {"oneshot", "prebuilt", "oneshot_iter", "prebuilt_iter"}
MatrixPasses == {"oneshot", "prebuilt", "oneshot_iter", "prebuilt_iter"}
PassesDone == pc \notin PassPcs /\ pc # "panicked"

(* the entries the four matrix passes registered *)
MatrixIdx == { n \in 1..Len(registered) : registered[n].pass \in MatrixPasses }
MiscIdx == { n \in 1..Len(registered) : registered[n].pass \notin MatrixPasses }

(* the query whose macro expansion registered entry e *)
QueryAt(e) == QueriesOf(INPUTS[e.inp], e.tier)[e.q]

(* the first place of character c in s, 0 if there is none *)
IndexOf(s, c) ==
    LET ps == { p \in 1..Len(s) : s[p] = c }
    IN IF ps = {} THEN 0 ELSE CHOOSE p \in ps : \A r \in ps : p <= r

RECURSIVE Split(_, _)
(* s split at every c *)
Split(s, c) ==
    LET p == IndexOf(s, c)
    IN IF p = 0 THEN <<s>>
       ELSE <<SubSeq(s, 1, p - 1)>> \o Split(SubSeq(s, p + 1, Len(s)), c)

StartsWith(s, prefix) ==
    Len(s) >= Len(prefix) /\ SubSeq(s, 1, Len(prefix)) = prefix

(* a name read by the slash grammar: split at '/', the last component split
   at its first '-' *)
Decode(name) ==
    LET parts == Split(name, Slash)
        last == parts[Len(parts)]
        d == IndexOf(last, Dash)
        Part(k) == IF k <= Len(parts) THEN parts[k] ELSE <<>>
    IN [parts |-> Len(parts), dir |-> Part(1), impl |-> Part(2),
        config |-> Part(3), inp |-> Part(4), dashed |-> d > 0,
        tier |-> IF d = 0 THEN last ELSE SubSeq(last, 1, d - 1),
        q |-> IF d = 0 THEN <<>> ELSE SubSeq(last, d + 1, Len(last))]

TierSet == {neverS, rareS, commonS}

(* C1: every query with count <= 1 has only oneshot/prebuilt benchmarks, every
   query with count > 1 only oneshotiter/prebuiltiter benchmarks, and no query
   has benchmarks of both families. *)
C1_FamilyByCount ==
    \A i \in 1..Len(INPUTS), t \in 1..Len(Tiers) :
      \A k \in 1..Len(QueriesOf(INPUTS[i], Tiers[t])) :
        LET count == QueriesOf(INPUTS[i], Tiers[t])[k].count
            Of == { n \in MatrixIdx : /\ registered[n].inp = i
                                      /\ registered[n].tier = Tiers[t]
                                      /\ registered[n].q = k }
            Found == { Decode(registered[n].name).config : n \in Of }
        IN /\ Found \subseteq Configs
           /\ count <= 1 => Found \subseteq {oneshotS, prebuiltS}
           /\ count > 1 => Found \subseteq {oneshotiterS, prebuiltiterS}
           /\ ~ /\ Found \cap {oneshotS, prebuiltS} # {}
                /\ Found \cap {oneshotiterS, prebuiltiterS} # {}

C1_Witness ==
    /\ pc = "sliceslice"
    /\ \E n, m \in MatrixIdx :
         QueryAt(registered[n]).count <= 1 /\ QueryAt(registered[m]).count > 1

(* the admission rule of a mode *)
Admits(config, count) ==
    IF config \in {oneshotS, prebuiltS} THEN count <= 1 ELSE count > 1

(* how many entries one (direction, implementation, mode, query) has *)
CountOf(dir, impl, config, i, tier, k) ==
    Cardinality({ n \in MatrixIdx :
                    /\ registered[n].dir = dir
                    /\ registered[n].impl = impl
                    /\ registered[n].config = config
                    /\ registered[n].inp = i
                    /\ registered[n].tier = tier
                    /\ registered[n].q = k })

ScenarioA ==
    /\ INPUTS = << [name |-> <<"x">>, corpus |-> "aaab", never |-> <<>>, rare |-> <<>>,
                    common |-> << [name |-> <<"a">>, needle |-> "a", count |-> 3] >>] >>
    /\ available = Capability(krate, "a", Tags, {})

ScenarioANames ==
    << <<"m","e","m","m","e","m","/","k","r","a","t","e","/","o","n","e","s","h","o","t","i","t","e","r","/","x","/","c","o","m","m","o","n","-","a">>,
       <<"m","e","m","r","m","e","m","/","k","r","a","t","e","/","o","n","e","s","h","o","t","i","t","e","r","/","x","/","c","o","m","m","o","n","-","a">>,
       <<"m","e","m","m","e","m","/","k","r","a","t","e","/","p","r","e","b","u","i","l","t","i","t","e","r","/","x","/","c","o","m","m","o","n","-","a">>,
       <<"m","e","m","r","m","e","m","/","k","r","a","t","e","/","p","r","e","b","u","i","l","t","i","t","e","r","/","x","/","c","o","m","m","o","n","-","a">> >>

(* C2: once the four passes have run, every (input, tier, query,
   implementation, mode) has exactly one memmem benchmark if the mode admits
   the query's count and the implementation lists the mode for the needle, and
   none otherwise (and the passes ended without an error); a common query of
   count 3 under one implementation that lists all five tags has exactly the
   four iteration benchmarks and no oneshot/prebuilt one. *)
C2_OnePerAdmittedMode ==
    PassesDone =>
      /\ \A i \in 1..Len(INPUTS), t \in 1..Len(Tiers) :
           \A k \in 1..Len(QueriesOf(INPUTS[i], Tiers[t])), impl \in Impls :
             LET q == QueriesOf(INPUTS[i], Tiers[t])[k]
                 av == available[impl][q.needle]
                 Total == Cardinality({ n \in MatrixIdx :
                                          /\ registered[n].impl = impl
                                          /\ registered[n].inp = i
                                          /\ registered[n].tier = Tiers[t]
                                          /\ registered[n].q = k })
             IN /\ \A config \in Configs :
                     CountOf(memmemS, impl, config, i, Tiers[t], k)
                       = IF Admits(config, q.count) /\ config \in av THEN 1 ELSE 0
                /\ (q.count = 3 /\ av = Tags) =>
                     /\ Total = 4
                     /\ \A dir \in {memmemS, memrmemS} :
                          /\ CountOf(dir, impl, oneshotiterS, i, Tiers[t], k) = 1
                          /\ CountOf(dir, impl, prebuiltiterS, i, Tiers[t], k) = 1
                          /\ CountOf(dir, impl, oneshotS, i, Tiers[t], k) = 0
                          /\ CountOf(dir, impl, prebuiltS, i, Tiers[t], k) = 0
      /\ ScenarioA =>
           { registered[n].name : n \in MatrixIdx }
             = { ScenarioANames[j] : j \in 1..4 }

C2_Witness ==
    /\ pc = "sliceslice"
    /\ ScenarioA
    /\ Cardinality(MatrixIdx) = 4

(* C3: an (implementation, needle) pair whose available() set lacks "reverse"
   has no benchmark whose name starts with memrmem/; its names start with
   memmem/. *)
C3_NoReverseNoMemrmem ==
    \A n \in MatrixIdx :
       LET e == registered[n]
       IN reverseS \notin available[e.impl][QueryAt(e).needle]
          => /\ ~StartsWith(e.name, memrmemS \o <<Slash>>)
             /\ StartsWith(e.name, memmemS \o <<Slash>>)

C3_Witness ==
    /\ pc = "sliceslice"
    /\ \E n, m \in MatrixIdx :
         /\ reverseS \notin available[registered[n].impl][QueryAt(registered[n]).needle]
         /\ StartsWith(registered[m].name, memrmemS \o <<Slash>>)

(* the combination that produced an entry *)
Combination(e) == <<e.dir, e.impl, e.config, e.inp, e.tier, e.q>>

(* C4: no two distinct admitted combinations have an equal name. *)
C4_NamesUnique ==
    PassesDone =>
      \A n, m \in MatrixIdx :
         Combination(registered[n]) # Combination(registered[m])
           => registered[n].name # registered[m].name

C4_Witness ==
    /\ pc = "sliceslice"
    /\ \E n, m \in MatrixIdx :
         LET e == registered[n]
             f == registered[m]
         IN /\ Combination(e) # Combination(f)
            /\ e.dir = f.dir /\ e.impl = f.impl /\ e.config = f.config
            /\ e.inp = f.inp /\ e.tier # f.tier
            /\ QueryAt(e).name = QueryAt(f).name

(* C5: every timed iteration of a matrix closure evaluates its assertion: a
   oneshot/prebuilt closure fails exactly when the boolean result differs from
   (count > 0), a oneshotiter/prebuiltiter closure exactly when the number of
   matches differs from count; a failing iteration is never counted as done. *)
C5_AssertEveryIteration ==
    (run.phase # "idle" /\ registered[run.bench].pass \in MatrixPasses) =>
      LET e == registered[run.bench]
          failed == run.phase = "failed"
      IN /\ run.asserts = run.iters
         /\ run.iters = run.done + (IF failed THEN 1 ELSE 0)
         /\ run.iters > 0 =>
              IF Decode(e.name).config \in {oneshotS, prebuiltS}
              THEN failed <=> (run.observed # (QueryAt(e).count > 0))
              ELSE failed <=> (run.observed # QueryAt(e).count)

C5_Witness ==
    /\ run.phase = "timed"
    /\ run.n > 1
    /\ run.done = run.n
    /\ registered[run.bench].pass \in MatrixPasses
    /\ Decode(registered[run.bench].name).config \in {oneshotS, prebuiltS}
    /\ QueryAt(registered[run.bench]).count = 0
    /\ run.observed = FALSE

(* C6: in one invocation a prebuilt/prebuiltiter closure has built its
   searcher once before the first timed iteration and builds none inside the
   timed region; a oneshot/oneshotiter closure builds none before and one in
   every timed iteration. *)
C6_ConstructionPlacement ==
    (run.phase # "idle" /\ registered[run.bench].pass \in MatrixPasses) =>
      IF Decode(registered[run.bench].name).config \in {prebuiltS, prebuiltiterS}
      THEN run.setupBuilds = 1 /\ run.timedBuilds = 0
      ELSE run.setupBuilds = 0 /\ run.timedBuilds = run.iters

C6_Witness ==
    /\ run.phase = "timed"
    /\ run.n > 1
    /\ run.done = run.n
    /\ registered[run.bench].pass \in MatrixPasses
    /\ Decode(registered[run.bench].name).config = prebuiltiterS
    /\ run.setupBuilds = 1

(* C7 as stated: when the executable cannot be read, the run aborts with no
   benchmark registered. *)
C7_AbortBeforeAnyBenchmark ==
    (pc = "panicked" /\ reads = 1) => registered = <<>>

(* C7: when the executable cannot be read, the run aborts before either
   frequency-table benchmark is registered, with the six finder_construction
   benchmarks (and those of the matrix passes) already registered; the read is
   made once. *)
C7_AbortBeforeFrequencyTable ==
    /\ reads <= 1
    /\ (pc = "panicked" /\ reads = 1) =>
         /\ \A n \in 1..Len(registered) : registered[n].pass # "byte_frequencies"
         /\ Cardinality({ n \in 1..Len(registered) :
                            registered[n].pass = "finder_construction" }) = 6
         /\ Len(registered) = Cardinality(MatrixIdx) + 6

C7_Witness ==
    /\ pc = "panicked"
    /\ reads = 1
    /\ MatrixIdx # {}
    /\ Len(registered) > 6

(* the naming grammar {memmem|memrmem}/{impl}/{config}/{input}/{tier}-{query} *)
WellFormed(name) ==
    LET d == Decode(name)
    IN /\ d.parts = 5
       /\ d.dir \in {memmemS, memrmemS}
       /\ d.config \in Configs
       /\ d.dashed
       /\ d.tier \in TierSet

C9_DecodeRoundTrip ==
    \A n \in MatrixIdx :
       LET e == registered[n]
           d == Decode(e.name)
       IN /\ d.parts = 5
          /\ d.dir = e.dir
          /\ d.impl = e.impl
          /\ d.config = e.config
          /\ d.inp = INPUTS[e.inp].name
          /\ d.tier = e.tier
          /\ d.q = QueryAt(e).name

C9_Witness ==
    \E n \in MatrixIdx :
       /\ IndexOf(INPUTS[registered[n].inp].name, Dash) > 0
       /\ IndexOf(QueryAt(registered[n]).name, Dash) > 0
       /\ Decode(registered[n].name).q = QueryAt(registered[n]).name

(* the values the module documentation lists for impl and config *)
DocImpls ==
    { <<"k","r","a","t","e">>, <<"k","r","a","t","e","-","n","o","p","r","e">>, <<"b","s","t","r">>, <<"r","e","g","e","x">>,
      <<"s","t","u","d">>, <<"t","w","o","w","a","y">>, <<"s","l","i","c","e","s","l","i","c","e">>, <<"l","i","b","c">> }
DocConfigs ==
    { <<"o","n","e","s","h","o","t">>, <<"p","r","e","b","u","i","l","t">>, <<"i","t","e","r","-","o","n","e","s","h","o","t">>, <<"i","t","e","r","-","p","r","e","b","u","i","l","t">> }

(* C10: the impl and config components of every matrix name are values the
   module documentation lists. *)
C10_DocumentedValues ==
    \A n \in MatrixIdx :
       /\ Decode(registered[n].name).impl \in DocImpls
       /\ Decode(registered[n].name).config \in DocConfigs

(* the forward name of a reverse name: memmem in the place of memrmem *)
ForwardOf(name) ==
    memmemS \o SubSeq(name, Len(memrmemS) + 1, Len(name))

(* C11: every registered name memrmem/{impl}/{config}/{input}/{tier}-{query}
   has memmem/{impl}/{config}/{input}/{tier}-{query} as the name registered
   immediately before it; and an (implementation, needle) pair that lists
   "reverse" but not a mode has neither the memmem nor the memrmem benchmark
   of that mode. *)
C11_ReverseFollowsForward ==
    /\ \A n \in 1..Len(registered) :
         StartsWith(registered[n].name, memrmemS \o <<Slash>>) =>
           /\ n > 1
           /\ registered[n - 1].name = ForwardOf(registered[n].name)
           /\ StartsWith(registered[n - 1].name, memmemS \o <<Slash>>)
    /\ \A n \in MatrixIdx :
         LET d == Decode(registered[n].name)
             av == available[registered[n].impl][QueryAt(registered[n]).needle]
         IN d.config \in av
    /\ \A i \in 1..Len(INPUTS), t \in 1..Len(Tiers) :
         \A k \in 1..Len(QueriesOf(INPUTS[i], Tiers[t])), impl \in Impls :
           LET av == available[impl][QueriesOf(INPUTS[i], Tiers[t])[k].needle]
           IN \A config \in Configs \ av :
                /\ CountOf(memmemS, impl, config, i, Tiers[t], k) = 0
                /\ CountOf(memrmemS, impl, config, i, Tiers[t], k) = 0

C11_Witness ==
    /\ pc = "sliceslice"
    /\ \E n \in MatrixIdx :
         /\ n > 1
         /\ StartsWith(registered[n].name, memrmemS \o <<Slash>>)
         /\ registered[n - 1].name = ForwardOf(registered[n].name)
    /\ \E i \in 1..Len(INPUTS), t \in 1..Len(Tiers) :
         \E k \in 1..Len(QueriesOf(INPUTS[i], Tiers[t])), impl \in Impls :
           LET q == QueriesOf(INPUTS[i], Tiers[t])[k]
               av == available[impl][q.needle]
           IN /\ reverseS \in av
              /\ \E config \in Configs \ av : Admits(config, q.count)
              /\ \A n \in MatrixIdx :
                   ~ /\ registered[n].impl = impl /\ registered[n].inp = i
                     /\ registered[n].tier = Tiers[t] /\ registered[n].q = k
                     /\ StartsWith(registered[n].name, memrmemS \o <<Slash>>)

====
